---- MODULE Spec2Model ----
(***************************************************************************)
(* BigqueryWorker (src/bigquery_worker.py): the data-access layer over the *)
(* warehouse dataset 'stock'.  Every method of the class is a call; a call *)
(* advances by one warehouse request per step (get_table, create_table,    *)
(* load job, job result, list_tables, query), so that calls of several     *)
(* callers interleave exactly where the remote service can serve another   *)
(* request.  The warehouse is the state `tables`.                          *)
(*                                                                         *)
(* Text.  Table names are strings, built with \o as the f-strings build    *)
(* them.  SQL text is a sequence of lexical tokens; an instrument name is  *)
(* the token sequence the SQL lexer sees when the name is pasted between   *)
(* two quotes, so a name holding a quote is more than one token.           *)
(***************************************************************************)
EXTENDS Naturals, Sequences, FiniteSets, Bags, TLC

VARIABLES
  tables,  \* the dataset: table_id -> [schema, rows]
  pc,      \* per caller: "idle", or the request its call sends next
  loc,     \* per caller: the frame of its call (arguments and locals)
  hist,    \* the finished calls, in order of completion
  left     \* calls the callers will still make

vars == <<tables, pc, loc, hist, left>>

(***************************** bounds **************************************)
\* Calls made in one behaviour (started calls, finished or not): by the
\* concurrent callers, by the one caller of the load/delete/read operations
\* and by the one caller of the query operations.
MaxCalls == 2
MaxSeqCalls == 3
MaxQueryCalls == 2
\* Days of the calendar the date arguments are drawn from: 1 is 2024-01-01.
MaxDate == 5
\* Copies of one row a table may hold before WRITE_APPEND loads stop.
MaxCopies == 2

Callers == {1, 2}
Dates == 1..MaxDate

(***************************** optional arguments **************************)
\* None is the empty tuple, a given value v the one-element tuple <<v>>.
None == <<>>
Some(v) == <<v>>
IsNone(o) == Len(o) = 0
Val(o) == o[1]

(************************* write dispositions ******************************)
WRITE_EMPTY == "WRITE_EMPTY"
WRITE_TRUNCATE == "WRITE_TRUNCATE"
WRITE_APPEND == "WRITE_APPEND"
WriteDisposition == {WRITE_EMPTY, WRITE_TRUNCATE, WRITE_APPEND}

(***************************** type maps ***********************************)
\* _extract_schema's type_map: local dtype -> warehouse field type.
SchemaTypeMap ==
  ("object" :> "STRING") @@ ("int32" :> "INTEGER") @@ ("int64" :> "INTEGER")
  @@ ("float64" :> "FLOAT") @@ ("datetime64[ns]" :> "DATE")
  @@ ("datetime64[ns, UTC]" :> "DATE")

\* _extract_dtypes's type_map: warehouse field type -> local dtype.
MutDtypeTypeMap ==
  ("STRING" :> "object") @@ ("INTEGER" :> "float64") @@ ("FLOAT" :> "float64")
  @@ ("DATE" :> "datetime64[ns]")

DtypeTypeMap ==
  ("STRING" :> "object") @@ ("INTEGER" :> "int64") @@ ("FLOAT" :> "float64")
  @@ ("DATE" :> "datetime64[ns]")

\* A function's result: the value it returns, or the exception it raises.
Return(v) == [raised |-> "", value |-> v]
Raise(e) == [raised |-> e, value |-> <<>>]

\* The schema list, one SchemaField(column_name, type) per column, in column
\* order; type_map[dtype] of a dtype that is no key raises KeyError.
MutExtractSchemaSkip(df) ==
  LET keep == SelectSeq(df.dtypes, LAMBDA p : p[2] \in DOMAIN SchemaTypeMap)
  IN Return([i \in 1..Len(keep) |-> <<keep[i][1], SchemaTypeMap[keep[i][2]]>>])

_extract_schema(df) ==
  IF \E i \in 1..Len(df.dtypes) : df.dtypes[i][2] \notin DOMAIN SchemaTypeMap
  THEN Raise("KeyError")
  ELSE Return([i \in 1..Len(df.dtypes) |->
                 <<df.dtypes[i][1], SchemaTypeMap[df.dtypes[i][2]]>>])

\* The dtypes dict, as the list of (field.name, dtype) in field order;
\* type_map[field.field_type] of a field type that is no key raises KeyError.
_extract_dtypes(table) ==
  IF \E i \in 1..Len(table.schema) : table.schema[i][2] \notin DOMAIN DtypeTypeMap
  THEN Raise("KeyError")
  ELSE Return([i \in 1..Len(table.schema) |->
                 <<table.schema[i][1], DtypeTypeMap[table.schema[i][2]]>>])

(***************************** batches *************************************)
\* Instrument names: "A" and "B" are plain.
NameA == <<"A">>
NameB == <<"B">>

Row(d, n) == [date |-> d, itemname |-> n]

\* Column dtypes of a batch; every mapped dtype occurs in Dt64 or DtUTC32.
Dt64 == <<<<"date", "datetime64[ns]">>, <<"itemname", "object">>,
          <<"volume", "int64">>, <<"close", "float64">>>>
DtUTC32 == <<<<"date", "datetime64[ns, UTC]">>, <<"itemname", "object">>,
             <<"volume", "int32">>, <<"close", "float64">>>>
\* A batch with a column of a dtype that is no key of the type_map.
DtBool == <<<<"date", "datetime64[ns]">>, <<"itemname", "object">>,
            <<"volume", "int64">>, <<"halted", "bool">>>>

DataFrame(dt, rows) == [dtypes |-> dt, rows |-> rows]

Rows(n, from, to) == {Row(d, n) : d \in from..to}

(************************* the warehouse state *****************************)
\* tables: table_id -> [schema, rows]; a table_id outside the domain is absent.
Exists(t) == t \in DOMAIN tables
IsEmptyTable(t) == tables[t].rows = EmptyBag

\* Lines 16-23: the table, or None when get_table raises NotFound.
get_table_if_exists(table_name) ==
  IF Exists(table_name) THEN Some(tables[table_name]) ELSE None

\* What a finished load job leaves in the table.
LoadedRows(old, df, wd) ==
  IF wd = WRITE_APPEND THEN old (+) SetToBag(df.rows) ELSE SetToBag(df.rows)

\* WRITE_TRUNCATE replaces the table, schema included.
LoadedSchema(old, schema, wd) == IF wd = WRITE_TRUNCATE THEN schema ELSE old

\* WRITE_EMPTY: the job is rejected with a duplicate error when the table holds data.
MutLoadConflictExists(t, wd) == wd = WRITE_EMPTY

LoadConflict(t, wd) == wd = WRITE_EMPTY /\ ~IsEmptyTable(t)

WithinCopies(b) == \A r \in BagToSet(b) : CopiesIn(r, b) <= MaxCopies

(***************************** calls ***************************************)
Idle == [op |-> "idle"]

Errors == {"KeyError", "Conflict", "BadRequest", "NotFound", "AttributeError", "TypeError"}

\* A call begins: its frame holds the arguments, the warehouse as it was (pre)
\* and the requests sent so far.
Begin(c, frame, next) ==
  /\ left > 0
  /\ left' = left - 1
  /\ pc' = [pc EXCEPT ![c] = next]
  /\ loc' = [loc EXCEPT ![c] = frame @@ [pre |-> tables, sent |-> <<>>]]
  /\ UNCHANGED <<tables, hist>>

\* A call ends, by return or by raise: the frame goes to the history with its
\* outcome and the warehouse as it is left (post).
End(c, frame, outcome, post) ==
  /\ tables' = post
  /\ hist' = Append(hist, [outcome |-> outcome, post |-> post, caller |-> c] @@ frame)
  /\ pc' = [pc EXCEPT ![c] = "idle"]
  /\ loc' = [loc EXCEPT ![c] = Idle]

\* A call that ends in its first step, having sent the requests `sent`.
Once(c, frame, sent, outcome, post) ==
  /\ left > 0
  /\ left' = left - 1
  /\ End(c, frame @@ [pre |-> tables, sent |-> sent], outcome, post)

Step(c, frame, next) ==
  /\ pc' = [pc EXCEPT ![c] = next]
  /\ loc' = [loc EXCEPT ![c] = frame]
  /\ UNCHANGED hist

Sent(c, req) == [loc[c] EXCEPT !.sent = Append(@, req)]

(***************************** _save_info **********************************)
\* Lines 157-159: the table reference and the schema, before any request.
\* outer: the frame of the public method that makes the call.
_save_info(c, outer, info_type, table_name, df, write_disposition) ==
  LET frame == [info_type |-> info_type, table_name |-> table_name,
                df |-> df, write_disposition |-> write_disposition] @@ outer
      schema == _extract_schema(df)
  IN IF schema.raised # ""
     THEN Once(c, frame, <<>>, schema.raised, tables)
     ELSE Begin(c, frame @@ [schema |-> schema.value], "get_table")

\* Lines 160-162: client.get_table; NotFound leads to create_table.
save_get_table(c) ==
  /\ pc[c] = "get_table"
  /\ UNCHANGED left
  /\ LET t == loc[c].table_name
     IN Step(c, Sent(c, <<"get_table", t>>),
             IF Exists(t) THEN "load" ELSE "create_table")
  /\ UNCHANGED tables

\* Lines 163-164: client.create_table(table), exists_ok left False: the request
\* is answered Conflict when the table exists by now, and nothing catches it.
save_create_table(c) ==
  /\ pc[c] = "create_table"
  /\ UNCHANGED left
  /\ LET t == loc[c].table_name
         f == Sent(c, <<"create_table", t>>)
     IN IF Exists(t)
        THEN End(c, f, "Conflict", tables)
        ELSE /\ tables' = (t :> [schema |-> loc[c].schema, rows |-> EmptyBag]) @@ tables
             /\ Step(c, f, "load")

\* Lines 165-172: client.load_table_from_dataframe; a Conflict raised by the
\* submission is caught, logged as SKIP and the call returns None.  Whether
\* the warehouse reports a rejected load at submission or in the job's result
\* is the warehouse's choice.
save_load(c) ==
  /\ pc[c] = "load"
  /\ UNCHANGED left
  /\ LET t == loc[c].table_name
         f == Sent(c, <<"load", t>>)
     IN \/ /\ LoadConflict(t, loc[c].write_disposition)
           /\ End(c, f, "Skipped", tables)
        \/ /\ Step(c, f, "result")
           /\ UNCHANGED tables

\* Lines 173-179: job.result(), outside the try: the job runs; a rejected job
\* raises from result(), a finished one has written the rows and table is returned.
save_result(c) ==
  /\ pc[c] = "result"
  /\ UNCHANGED left
  /\ LET t == loc[c].table_name
         wd == loc[c].write_disposition
         new == LoadedRows(tables[t].rows, loc[c].df, wd)
     IN IF LoadConflict(t, wd)
        THEN End(c, loc[c], "Conflict", tables)
        ELSE /\ WithinCopies(new)
             /\ End(c, loc[c], "Loaded",
                    [tables EXCEPT ![t] = [schema |-> LoadedSchema(@.schema, loc[c].schema, wd),
                                           rows |-> new]])

(************************* the save operations *****************************)
\* Lines 30-34.
save_itemcodes_info(c, df, write_disposition) ==
  /\ pc[c] = "idle"
  /\ _save_info(c, [op |-> "save_itemcodes_info"], "itemcode", "itemcodes_info", df, write_disposition)

\* Lines 39-44: table_name = f'daily_items_info_{itemcode}_{market}'.
DailyItemTableName(itemcode_info) ==
  "daily_items_info_" \o itemcode_info[1] \o "_" \o itemcode_info[3]

save_daily_item_info(c, itemcode_info, df, write_disposition) ==
  /\ pc[c] = "idle"
  /\ _save_info(c, [op |-> "save_daily_item_info", itemcode_info |-> itemcode_info],
                "daily_items",
                DailyItemTableName(itemcode_info), df, write_disposition)

\* Lines 49-55: table_name = f'daily_items_indicator_info_{itemcode}_{market}'.
DailyItemIndicatorTableName(itemcode_info) ==
  "daily_items_indicator_info_" \o itemcode_info[1] \o "_" \o itemcode_info[3]

save_daily_item_indicator_info(c, itemcode_info, df, write_disposition) ==
  /\ pc[c] = "idle"
  /\ _save_info(c, [op |-> "save_daily_item_indicator_info",
                    itemcode_info |-> itemcode_info], "daily_items_indicator",
                DailyItemIndicatorTableName(itemcode_info), df, write_disposition)

(***************************** SQL text ************************************)
\* x.format('YYYY-MM-DD') of day x, and the day a date literal names.
DateText == <<"2024-01-01", "2024-01-02", "2024-01-03", "2024-01-04",
              "2024-01-05", "2024-01-06", "2024-01-07", "2024-01-08">>
Format(d) == DateText[d]
IsDateText(s) == \E d \in 1..Len(DateText) : DateText[d] = s
DayOf(s) == CHOOSE d \in 1..Len(DateText) : DateText[d] = s

\* f"'{x}'": the text of x between two quotes, x pasted as it is.
Quoted(x) == <<"'">> \o x \o <<"'">>

\* sep.join(parts)
RECURSIVE Join(_, _)
Join(sep, parts) ==
  IF Len(parts) = 0 THEN <<>>
  ELSE IF Len(parts) = 1 THEN parts[1]
  ELSE parts[1] \o sep \o Join(sep, Tail(parts))

\* Series.unique(): first occurrences, in order.
RECURSIVE Unique(_)
Unique(s) ==
  IF Len(s) = 0 THEN <<>>
  ELSE LET init == Unique(SubSeq(s, 1, Len(s) - 1))
           last == s[Len(s)]
       IN IF \E i \in 1..Len(init) : init[i] = last THEN init ELSE Append(init, last)

\* codeinfo_df['itemname'], codeinfo_df.empty; a row of codeinfo_df is
\* (itemcode, itemname, market).
ItemNames(codeinfo_df) == [i \in 1..Len(codeinfo_df) |-> codeinfo_df[i][2]]
IsEmptyFrame(codeinfo_df) == Len(codeinfo_df) = 0

\* ', '.join([f"'{x}'" for x in names])
QuotedList(names) == Join(<<",">>, [i \in 1..Len(names) |-> Quoted(names[i])])

(******************** how the warehouse reads a WHERE clause ***************)
\* Lexing: a quote opens a string literal that runs to the next quote.
RECURSIVE Lex(_)
Lex(s) ==
  IF Len(s) = 0 THEN <<>>
  ELSE IF Head(s) = "'"
    THEN LET rest == Tail(s)
             close == {j \in 1..Len(rest) : rest[j] = "'"}
         IN IF close = {} THEN <<[k |-> "open", v |-> rest]>>
            ELSE LET j == CHOOSE x \in close : \A y \in close : x <= y
                 IN <<[k |-> "lit", v |-> SubSeq(rest, 1, j - 1)]>>
                    \o Lex(SubSeq(rest, j + 1, Len(rest)))
    ELSE <<[k |-> "sym", v |-> <<Head(s)>>]>> \o Lex(Tail(s))

\* Keywords are case-insensitive: the code writes both "in" and "IN".
Fold(w) == IF w = "in" THEN "IN" ELSE w
IsSym(item, w) == item.k = "sym" /\ Fold(item.v[1]) = w

\* The pieces of items between the occurrences of the keyword w.
RECURSIVE SplitAt(_, _)
SplitAt(items, w) ==
  LET at == {i \in 1..Len(items) : IsSym(items[i], w)}
  IN IF at = {} THEN <<items>>
     ELSE LET i == CHOOSE x \in at : \A y \in at : x <= y
          IN <<SubSeq(items, 1, i - 1)>> \o SplitAt(SubSeq(items, i + 1, Len(items)), w)

IsDateLit(item) == item.k = "lit" /\ Len(item.v) = 1 /\ IsDateText(item.v[1])

\* date >= 'd', date <= 'd'
IsDateAtom(a) ==
  /\ Len(a) = 3
  /\ IsSym(a[1], "date")
  /\ IsSym(a[2], ">=") \/ IsSym(a[2], "<=")
  /\ IsDateLit(a[3])

\* itemname IN ('x', 'y', ...): at least one literal.
IsInAtom(a) ==
  /\ Len(a) >= 5
  /\ (Len(a) - 4) % 2 = 1
  /\ IsSym(a[1], "itemname")
  /\ IsSym(a[2], "IN")
  /\ IsSym(a[3], "(")
  /\ IsSym(a[Len(a)], ")")
  /\ \A i \in 4..(Len(a) - 1) :
       IF (i - 4) % 2 = 0 THEN a[i].k = "lit" ELSE IsSym(a[i], ",")

IsAtom(a) == IsDateAtom(a) \/ IsInAtom(a)

AtomHolds(a, row) ==
  IF IsDateAtom(a)
  THEN IF IsSym(a[2], ">=") THEN row.date >= DayOf(a[3].v[1])
       ELSE row.date <= DayOf(a[3].v[1])
  ELSE \E i \in 4..(Len(a) - 1) : a[i].k = "lit" /\ a[i].v = row.itemname

\* The condition after WHERE: a disjunction of conjunctions of atoms.
Disjuncts(where) ==
  LET ors == SplitAt(Lex(Tail(where)), "OR")
  IN [i \in 1..Len(ors) |-> SplitAt(ors[i], "AND")]

\* The clause parses: it is empty text, or WHERE and a condition.
WellFormed(where) ==
  \/ Len(where) = 0
  \/ /\ Head(where) = "WHERE"
     /\ LET ds == Disjuncts(where)
        IN \A i \in 1..Len(ds) : \A j \in 1..Len(ds[i]) : IsAtom(ds[i][j])

\* The rows a well-formed clause selects.
Selects(where, row) ==
  \/ Len(where) = 0
  \/ LET ds == Disjuncts(where)
     IN \E i \in 1..Len(ds) : \A j \in 1..Len(ds[i]) : AtomHolds(ds[i][j], row)

Selected(where, rows) ==
  LET keep == {r \in BagToSet(rows) : Selects(where, r)}
  IN [r \in keep |-> rows[r]]

Unselected(where, rows) ==
  LET keep == {r \in BagToSet(rows) : ~Selects(where, r)}
  IN [r \in keep |-> rows[r]]

(************************* delete_duplicated_rows **************************)
\* Lines 185-194: WHERE date >= '{start_date_str}' {itemnames_clause}
MutDeleteWhereBefore(start_date_str, codeinfo_df) ==
  <<"WHERE", "date", "<=">> \o Quoted(<<start_date_str>>)

DeleteWhere(start_date_str, codeinfo_df) ==
  LET itemnames_str ==
        IF IsNone(codeinfo_df) THEN <<>>
        ELSE QuotedList(Unique(ItemNames(Val(codeinfo_df))))
      itemnames_clause ==
        IF IsNone(codeinfo_df) THEN <<>>
        ELSE <<"AND", "itemname", "in", "(">> \o itemnames_str \o <<")">>
  IN <<"WHERE", "date", ">=">> \o Quoted(<<start_date_str>>) \o itemnames_clause

\* Line 181.
delete_duplicated_rows(c, table_name, start_date_str, codeinfo_df) ==
  /\ pc[c] = "idle"
  /\ Begin(c, [op |-> "delete_duplicated_rows", table_name |-> table_name,
               start_date_str |-> start_date_str, codeinfo_df |-> codeinfo_df],
           "del_get_table")

\* Lines 182-183: get_table_if_exists; an absent table ends the call.
del_get_table(c) ==
  /\ pc[c] = "del_get_table"
  /\ UNCHANGED left
  /\ LET t == loc[c].table_name
         f == Sent(c, <<"get_table", t>>)
     IN IF IsNone(get_table_if_exists(t))
        THEN End(c, f, "Returned", tables)
        ELSE Step(c, f, "del_query") /\ UNCHANGED tables

\* Lines 189-196: the DELETE statement is sent and its result awaited.
del_query(c) ==
  /\ pc[c] = "del_query"
  /\ UNCHANGED left
  /\ LET t == loc[c].table_name
         where == DeleteWhere(loc[c].start_date_str, loc[c].codeinfo_df)
         f == Sent(c, <<"query", [stmt |-> "DELETE", from |-> t, where |-> where]>>)
     IN IF ~WellFormed(where)
        THEN End(c, f, "BadRequest", tables)
        ELSE End(c, f, "Returned",
                 [tables EXCEPT ![t].rows = Unselected(where, tables[t].rows)])

(************************* get_last_date_of_daily_info *********************)
\* Lines 58-61: WHERE itemname in (...), or nothing.
LastDateWhere(codeinfo_df) ==
  IF IsNone(codeinfo_df) THEN <<>>
  ELSE <<"WHERE", "itemname", "in", "(">>
       \o QuotedList(Unique(ItemNames(Val(codeinfo_df)))) \o <<")">>

\* MAX(date) of the selected rows; 0 stands for NaT (no row).
MaxDateOf(rows) ==
  LET ds == {r.date : r \in BagToSet(rows)}
  IN IF ds = {} THEN 0 ELSE CHOOSE d \in ds : \A e \in ds : e <= d

\* Lines 57-70: one query.
get_last_date_of_daily_info(c, table_name, codeinfo_df) ==
  LET where == LastDateWhere(codeinfo_df)
      frame == [op |-> "get_last_date_of_daily_info", table_name |-> table_name,
                codeinfo_df |-> codeinfo_df, where |-> where]
      sent == <<<<"query", [stmt |-> "SELECT", from |-> table_name, where |-> where]>>>>
  IN /\ pc[c] = "idle"
     /\ IF ~WellFormed(where) THEN Once(c, frame, sent, "BadRequest", tables)
        ELSE IF ~Exists(table_name) THEN Once(c, frame, sent, "NotFound", tables)
        ELSE Once(c, frame @@ [lastdate |->
                                 MaxDateOf(Selected(where, tables[table_name].rows))],
                  sent, "Returned", tables)

(***************************** get_daily_info_all **************************)
\* Lines 73-82.
AllWhere(codeinfo_df, start_date, end_date) ==
  LET w1 == IF ~IsNone(codeinfo_df) /\ ~IsEmptyFrame(Val(codeinfo_df))
            THEN <<<<"itemname", "IN", "(">>
                   \o QuotedList(ItemNames(Val(codeinfo_df))) \o <<")">>>>
            ELSE <<>>
      w2 == IF ~IsNone(start_date)
            THEN <<<<"date", ">=">> \o Quoted(<<Format(Val(start_date))>>)>>
            ELSE <<>>
      w3 == IF ~IsNone(end_date)
            THEN <<<<"date", "<=">> \o Quoted(<<Format(Val(end_date))>>)>>
            ELSE <<>>
      where_clause == Join(<<"AND">>, w1 \o w2 \o w3)
  IN IF Len(where_clause) # 0 THEN <<"WHERE">> \o where_clause ELSE <<>>

\* Line 72.
get_daily_info_all(c, info_type, codeinfo_df, start_date, end_date) ==
  /\ pc[c] = "idle"
  /\ Begin(c, [op |-> "get_daily_info_all", info_type |-> info_type,
               codeinfo_df |-> codeinfo_df, start_date |-> start_date,
               end_date |-> end_date,
               where |-> AllWhere(codeinfo_df, start_date, end_date)],
           "all_get_table")

\* Line 88: get_table_if_exists(info_type).
all_get_table(c) ==
  /\ pc[c] = "all_get_table"
  /\ UNCHANGED left
  /\ Step(c, Sent(c, <<"get_table", loc[c].info_type>>)
             @@ [table |-> get_table_if_exists(loc[c].info_type)], "all_query")
  /\ UNCHANGED tables

\* Line 89: client.query(query) is sent, then _extract_dtypes(table) is
\* evaluated (None has no schema), then the rows are fetched.
all_query(c) ==
  /\ pc[c] = "all_query"
  /\ UNCHANGED left
  /\ LET t == loc[c].info_type
         f == Sent(c, <<"query", [stmt |-> "SELECT", from |-> t, where |-> loc[c].where]>>)
     IN IF IsNone(loc[c].table) THEN End(c, f, "AttributeError", tables)
        ELSE LET dtypes == _extract_dtypes(Val(loc[c].table))
             IN IF dtypes.raised # "" THEN End(c, f, dtypes.raised, tables)
                ELSE IF ~WellFormed(loc[c].where) THEN End(c, f, "BadRequest", tables)
                ELSE End(c, f @@ [dtypes |-> dtypes.value,
                                  rows |-> Selected(loc[c].where, tables[t].rows)],
                         "Returned", tables)

(***************************** save_daily_info_all *************************)
\* Line 96: f"{info_type}_{data['itemcode']}_{data['market']}"
AllShardName(info_type, itemcode_info) ==
  info_type \o "_" \o itemcode_info[1] \o "_" \o itemcode_info[3]

\* Lines 98-101.
SaveAllWhere(start_date, end_date) ==
  LET w1 == IF ~IsNone(start_date)
            THEN <<<<"date", ">=">> \o Quoted(<<Format(Val(start_date))>>)>>
            ELSE <<>>
      w2 == IF ~IsNone(end_date)
            THEN <<<<"date", "<=">> \o Quoted(<<Format(Val(end_date))>>)>>
            ELSE <<>>
      where_clause == Join(<<"AND">>, w1 \o w2)
  IN IF Len(where_clause) # 0 THEN <<"WHERE">> \o where_clause ELSE <<>>

\* Line 93.
save_daily_info_all(c, info_type, codeinfo_df, write_disposition, start_date, end_date) ==
  /\ pc[c] = "idle"
  /\ Begin(c, [op |-> "save_daily_info_all", info_type |-> info_type,
               codeinfo_df |-> codeinfo_df, write_disposition |-> write_disposition,
               start_date |-> start_date, end_date |-> end_date],
           "agg_list_tables")

\* Lines 95-106: list_tables, then the text of the query: one SELECT per shard
\* name that is listed, joined by UNION ALL; no shard gives the empty text.
agg_list_tables(c) ==
  /\ pc[c] = "agg_list_tables"
  /\ UNCHANGED left
  /\ LET all_table_names == DOMAIN tables
         names == [i \in 1..Len(loc[c].codeinfo_df) |->
                     AllShardName(loc[c].info_type, loc[c].codeinfo_df[i])]
         table_names == SelectSeq(names, LAMBDA x : x \in all_table_names)
         where_clause == SaveAllWhere(loc[c].start_date, loc[c].end_date)
         query == [i \in 1..Len(table_names) |->
                     [stmt |-> "SELECT", from |-> table_names[i], where |-> where_clause]]
     IN Step(c, Sent(c, <<"list_tables">>) @@ [table_names |-> table_names, query |-> query],
             "agg_query")
  /\ UNCHANGED tables

\* The rows of a UNION ALL of SELECTs.
RECURSIVE UnionAll(_)
UnionAll(query) ==
  IF Len(query) = 0 THEN EmptyBag
  ELSE Selected(query[1].where, tables[query[1].from].rows) (+) UnionAll(Tail(query))

\* Lines 108-115: the query job writes {info_type}_all under the write
\* disposition; the empty text is rejected by the warehouse.
agg_query(c) ==
  /\ pc[c] = "agg_query"
  /\ UNCHANGED left
  /\ LET dest == loc[c].info_type \o "_all"
         wd == loc[c].write_disposition
         query == loc[c].query
         f == Sent(c, <<"query", query>>)
         got == UnionAll(query)
         new == IF Exists(dest) /\ wd = WRITE_APPEND THEN tables[dest].rows (+) got
                ELSE got
     IN IF Len(query) = 0 THEN End(c, f, "BadRequest", tables)
        ELSE IF Exists(dest) /\ LoadConflict(dest, wd) THEN End(c, f, "Conflict", tables)
        ELSE /\ WithinCopies(new)
             /\ End(c, f, "Returned",
                    (dest :> [schema |-> tables[query[1].from].schema, rows |-> new])
                    @@ tables)

(***************************** _get_daily_info *****************************)
\* Line 119: f'{info_type}_info_{itemcode}_{market}'
DailyInfoTableName(info_type, itemcode_info) ==
  info_type \o "_info_" \o itemcode_info[1] \o "_" \o itemcode_info[3]

\* Lines 123-126: .loc[start_date:] and .loc[:end_date] on the sorted date index.
Slice(rows, start_date, end_date) ==
  LET keep == {r \in BagToSet(rows) :
                 /\ IsNone(start_date) \/ r.date >= Val(start_date)
                 /\ IsNone(end_date) \/ r.date <= Val(end_date)}
  IN [r \in keep |-> rows[r]]

\* Line 117.
_get_daily_info(c, op, info_type, itemcode_info, start_date, end_date) ==
  Begin(c, [op |-> op, table_name |-> DailyInfoTableName(info_type, itemcode_info),
            start_date |-> start_date, end_date |-> end_date],
        "read_get_table")

\* Line 119: get_table_if_exists.
read_get_table(c) ==
  /\ pc[c] = "read_get_table"
  /\ UNCHANGED left
  /\ Step(c, Sent(c, <<"get_table", loc[c].table_name>>)
             @@ [table |-> get_table_if_exists(loc[c].table_name)], "read_list_rows")
  /\ UNCHANGED tables

\* Lines 120-128: list_rows(table) with the dtypes of the table's schema;
\* list_rows(None) raises.
read_list_rows(c) ==
  /\ pc[c] = "read_list_rows"
  /\ UNCHANGED left
  /\ LET t == loc[c].table_name
         dtypes == _extract_dtypes(Val(loc[c].table))
     IN IF IsNone(loc[c].table) THEN End(c, loc[c], "TypeError", tables)
        ELSE IF dtypes.raised # "" THEN End(c, loc[c], dtypes.raised, tables)
        ELSE End(c, Sent(c, <<"list_rows", t>>)
                    @@ [dtypes |-> dtypes.value,
                        rows |-> Slice(tables[t].rows, loc[c].start_date, loc[c].end_date)],
                 "Returned", tables)

\* Lines 36-37.
get_daily_item_info(c, itemcode_info, start_date, end_date) ==
  /\ pc[c] = "idle"
  /\ _get_daily_info(c, "get_daily_item_info", "daily_items", itemcode_info, start_date, end_date)

\* Lines 46-47.
get_daily_item_indicator_info(c, itemcode_info, start_date, end_date) ==
  /\ pc[c] = "idle"
  /\ _get_daily_info(c, "get_daily_item_indicator_info", "daily_items_indicator",
                     itemcode_info, start_date, end_date)

\* Lines 25-28: get_table_if_exists('itemcodes_info'), then list_rows.
get_itemcodes_info(c) ==
  /\ pc[c] = "idle"
  /\ Begin(c, [op |-> "get_itemcodes_info", table_name |-> "itemcodes_info",
               start_date |-> None, end_date |-> None], "read_get_table")

(***************************** inputs ***************************************)
\* itemcode_info triples (itemcode, itemname, market).
Samsung == <<"005930", NameA, "KOSPI">>
ItemAB_C == <<"A_B", NameA, "C">>
ItemA_BC == <<"A", NameB, "B_C">>
\* An instrument whose name holds quotes: A') OR date >= '2024-01-01' OR itemname in ('A
NameQ == <<"A", "'", ")", "OR", "date", ">=", "'", "2024-01-01", "'",
           "OR", "itemname", "in", "(", "'", "A">>
ItemQ == <<"Q", NameQ, "C">>

Batch15 == DataFrame(Dt64, Rows(NameA, 1, 5))
Batch35 == DataFrame(DtUTC32, Rows(NameA, 3, 5))
BatchBool == DataFrame(DtBool, Rows(NameA, 1, 2))
BatchAB == DataFrame(Dt64, Rows(NameA, 2, 4) \cup Rows(NameB, 3, 5))

\* codeinfo_df arguments: None, an empty frame, frames of instruments.
CodeInfos == {None, Some(<<>>), Some(<<ItemAB_C>>), Some(<<ItemAB_C, ItemA_BC, ItemAB_C>>),
              Some(<<ItemQ>>)}
OptDates == {None, Some(2), Some(4)}

(***************************** specifications ******************************)
\* The dataset is empty, nobody is calling, and n calls will be made.
Start(n) ==
  /\ tables = <<>>
  /\ pc = [c \in Callers |-> "idle"]
  /\ loc = [c \in Callers |-> Idle]
  /\ hist = <<>>
  /\ left = n

\* Callers 1 and 2 call concurrently: any interleaving of their requests.
Init == Start(MaxCalls)

Next ==
  \E c \in Callers :
    \/ \E df \in {Batch15, BatchBool}, wd \in {WRITE_TRUNCATE} :
         save_itemcodes_info(c, df, wd)
    \/ \E i \in {ItemAB_C}, df \in {BatchAB}, wd \in {WRITE_EMPTY} :
         save_daily_item_info(c, i, df, wd)
    \/ \E i \in {ItemAB_C}, df \in {Batch35}, wd \in {WRITE_EMPTY} :
         save_daily_item_indicator_info(c, i, df, wd)
    \/ get_itemcodes_info(c)
    \/ \E i \in {ItemAB_C}, sd \in {Some(3)}, ed \in {None} :
         get_daily_item_info(c, i, sd, ed)
    \/ \E i \in {ItemAB_C}, sd \in {None}, ed \in {Some(4)} :
         get_daily_item_indicator_info(c, i, sd, ed)
    \/ \E t \in {DailyItemTableName(ItemAB_C)}, ci \in {None, Some(<<ItemAB_C>>)} :
         get_last_date_of_daily_info(c, t, ci)
    \/ \E t \in {DailyItemTableName(ItemAB_C)}, ci \in {None, Some(<<ItemAB_C>>)},
          sd \in {Some(3)}, ed \in {None} :
         get_daily_info_all(c, t, ci, sd, ed)
    \/ \E it \in {"daily_items_info"}, ci \in {<<>>, <<ItemAB_C>>}, wd \in {WRITE_TRUNCATE},
          sd \in {None}, ed \in {Some(4)} :
         save_daily_info_all(c, it, ci, wd, sd, ed)
    \/ \E t \in {DailyItemTableName(ItemAB_C)}, ci \in {None, Some(<<ItemAB_C>>)} :
         delete_duplicated_rows(c, t, Format(3), ci)
    \/ save_get_table(c)
    \/ save_create_table(c)
    \/ save_load(c)
    \/ save_result(c)
    \/ del_get_table(c)
    \/ del_query(c)
    \/ all_get_table(c)
    \/ all_query(c)
    \/ agg_list_tables(c)
    \/ agg_query(c)
    \/ read_get_table(c)
    \/ read_list_rows(c)

Spec == Init /\ [][Next]_vars

\* One caller, one call at a time: loads, deletes and reads of one shard.
InitSeq == Start(MaxSeqCalls)

NextSeq ==
  \/ \E df \in {Batch15, Batch35, BatchBool}, wd \in WriteDisposition :
       save_daily_item_info(1, Samsung, df, wd)
  \/ \E d \in Dates :
       delete_duplicated_rows(1, DailyItemTableName(Samsung), Format(d), None)
  \/ get_daily_item_info(1, Samsung, None, None)
  \/ save_get_table(1)
  \/ save_create_table(1)
  \/ save_load(1)
  \/ save_result(1)
  \/ del_get_table(1)
  \/ del_query(1)
  \/ read_get_table(1)
  \/ read_list_rows(1)

SpecSeq == InitSeq /\ [][NextSeq]_vars

\* One caller, one call at a time: the operations that build query text.
InitQuery == Start(MaxQueryCalls)

NextQuery ==
  \/ \E i \in {ItemAB_C, ItemA_BC}, df \in {BatchAB, Batch15}, wd \in {WRITE_EMPTY} :
       save_daily_item_info(1, i, df, wd)
  \/ \E t \in {DailyItemTableName(ItemAB_C), DailyItemTableName(Samsung)}, ci \in CodeInfos :
       get_last_date_of_daily_info(1, t, ci)
  \/ \E t \in {DailyItemTableName(ItemAB_C)}, ci \in CodeInfos, sd \in OptDates, ed \in OptDates :
       get_daily_info_all(1, t, ci, sd, ed)
  \/ \E it \in {"daily_items", "daily_items_info"},
        ci \in {<<>>, <<ItemAB_C>>, <<ItemAB_C, ItemA_BC, ItemAB_C>>},
        wd \in {WRITE_TRUNCATE}, sd \in OptDates, ed \in OptDates :
       save_daily_info_all(1, it, ci, wd, sd, ed)
  \/ \E t \in {DailyItemTableName(ItemAB_C), DailyItemTableName(Samsung)},
        d \in {1, 3}, ci \in CodeInfos :
       delete_duplicated_rows(1, t, Format(d), ci)
  \/ save_get_table(1)
  \/ save_create_table(1)
  \/ save_load(1)
  \/ save_result(1)
  \/ del_get_table(1)
  \/ del_query(1)
  \/ all_get_table(1)
  \/ all_query(1)
  \/ agg_list_tables(1)
  \/ agg_query(1)

SpecQuery == InitQuery /\ [][NextQuery]_vars

(***************************** properties **********************************)
Finished == 1..Len(hist)
SaveOps == {"save_itemcodes_info", "save_daily_item_info", "save_daily_item_indicator_info"}
IsSave(h) == h.op \in SaveOps
IsDelete(h) == h.op = "delete_duplicated_rows"
IsRead(h) == h.op \in {"get_daily_item_info", "get_daily_item_indicator_info",
                       "get_itemcodes_info"}
Present(w, t) == t \in DOMAIN w
SentKinds(h) == {h.sent[i][1] : i \in 1..Len(h.sent)}
Shard == DailyItemTableName(Samsung)
Once15 == SetToBag(Rows(NameA, 1, 5))
Once12 == SetToBag(Rows(NameA, 1, 2))

\* The scenario of the reload: on an absent shard, a load of 01-01..01-05
\* under WRITE_EMPTY, a delete from 01-03, a load of 01-03..01-05 under wd.
Reload(wd) ==
  /\ Len(hist) >= 3
  /\ hist[1].op = "save_daily_item_info" /\ hist[1].table_name = Shard
  /\ ~Present(hist[1].pre, Shard)
  /\ hist[1].df.rows = Rows(NameA, 1, 5) /\ hist[1].write_disposition = WRITE_EMPTY
  /\ hist[1].outcome # "KeyError"
  /\ IsDelete(hist[2]) /\ hist[2].table_name = Shard
  /\ hist[2].start_date_str = Format(3) /\ IsNone(hist[2].codeinfo_df)
  /\ hist[3].op = "save_daily_item_info" /\ hist[3].table_name = Shard
  /\ hist[3].df.rows = Rows(NameA, 3, 5) /\ hist[3].write_disposition = wd
  /\ hist[3].outcome # "KeyError"

\* C1, as stated: after the load, the delete from 01-03 and the reload of
\* 01-03..01-05 under WRITE_EMPTY, the shard holds exactly one row for each
\* of 01-01..01-05 (and held exactly 01-01, 01-02 after the delete).
C1_ReloadRestoresAll ==
  Reload(WRITE_EMPTY) =>
    /\ hist[2].post[Shard].rows = Once12
    /\ hist[3].post[Shard].rows = Once15

\* C1, amended: the delete leaves exactly 01-01 and 01-02; the reload under
\* WRITE_EMPTY is rejected as a conflict (skipped, or raised from the job's
\* result) and leaves exactly 01-01 and 01-02; the reload under WRITE_APPEND
\* is loaded and leaves exactly one row for each of 01-01..01-05.
C1_ReloadUnderDisposition ==
  /\ Reload(WRITE_EMPTY) =>
       /\ hist[1].outcome = "Loaded" /\ hist[1].post[Shard].rows = Once15
       /\ hist[2].outcome = "Returned" /\ hist[2].post[Shard].rows = Once12
       /\ hist[3].outcome \in {"Skipped", "Conflict"}
       /\ hist[3].post[Shard].rows = Once12
  /\ Reload(WRITE_APPEND) =>
       /\ hist[2].post[Shard].rows = Once12
       /\ hist[3].outcome = "Loaded"
       /\ hist[3].post[Shard].rows = Once15

C1_Witness == Reload(WRITE_EMPTY) /\ hist[3].post[Shard].rows = Once12

\* C2: two loads in sequence of the same batch into the same, initially
\* absent table under WRITE_EMPTY: the first ends loaded, the second ends
\* skipped, wherever the conflict is reported, and loads nothing.
C2_SecondLoadSkipped ==
  (/\ Len(hist) >= 2
   /\ IsSave(hist[1]) /\ IsSave(hist[2])
   /\ hist[1].outcome # "KeyError"
   /\ ~Present(hist[1].pre, hist[1].table_name)
   /\ hist[2].table_name = hist[1].table_name
   /\ hist[2].df = hist[1].df
   /\ hist[1].write_disposition = WRITE_EMPTY
   /\ hist[2].write_disposition = WRITE_EMPTY)
  => /\ hist[1].outcome = "Loaded"
     /\ hist[2].outcome = "Skipped"
     /\ hist[2].post = hist[2].pre

\* C3: a save call whose create_table request finds the table created by
\* another caller in the meantime does not end in an error.
C3_CreateRaceIsSuccess ==
  \A i \in Finished :
    (IsSave(hist[i]) /\ Len(hist[i].sent) > 0
       /\ hist[i].sent[Len(hist[i].sent)][1] = "create_table")
    => hist[i].outcome \notin Errors

\* C4: the aggregate operation, when no shard name of the reference set is
\* listed, fails with NoDataError and sends no query.
C4_NoShardNoQuery ==
  \A i \in Finished :
    (hist[i].op = "save_daily_info_all" /\ Len(hist[i].table_names) = 0)
    => /\ hist[i].outcome = "NoDataError"
       /\ "query" \notin SentKinds(hist[i])

\* The rows a delete from `from` restricted to the names of ci is to remove.
ToDelete(r, start_date_str, ci) ==
  /\ r.date >= DayOf(start_date_str)
  /\ IsNone(ci) \/ \E k \in 1..Len(Val(ci)) : Val(ci)[k][2] = r.itemname

\* C5: a delete on an absent table returns without a query and changes
\* nothing; on a present table it removes exactly the rows with date >=
\* watermark (of the given names, when given) and changes nothing else.
C5_DeleteExactlyFromWatermark ==
  \A i \in Finished :
    IsDelete(hist[i]) =>
      LET h == hist[i]
          t == h.table_name
      IN IF ~Present(h.pre, t)
         THEN h.outcome = "Returned" /\ "query" \notin SentKinds(h) /\ h.post = h.pre
         ELSE LET keep == {r \in BagToSet(h.pre[t].rows) :
                             ~ToDelete(r, h.start_date_str, h.codeinfo_df)}
              IN h.post = [h.pre EXCEPT ![t].rows = [r \in keep |-> h.pre[t].rows[r]]]

\* The second half of C5 for names that hold no quote (an empty set of names
\* included): exactly the rows from the watermark on, of the given names, go.
PlainNames(ci) ==
  IsNone(ci) \/ \A k \in 1..Len(Val(ci)) : \A n \in 1..Len(Val(ci)[k][2]) :
                  Val(ci)[k][2][n] # "'"
DeleteExactForPlainNames ==
  \A i \in Finished :
    (IsDelete(hist[i]) /\ PlainNames(hist[i].codeinfo_df)
       /\ Present(hist[i].pre, hist[i].table_name)) =>
      LET h == hist[i]
          t == h.table_name
          keep == {r \in BagToSet(h.pre[t].rows) :
                     ~ToDelete(r, h.start_date_str, h.codeinfo_df)}
      IN h.post = [h.pre EXCEPT ![t].rows = [r \in keep |-> h.pre[t].rows[r]]]

\* The semantic class of a local dtype.
ClassOf(dtype) ==
  CASE dtype = "object" -> "Text"
    [] dtype \in {"int32", "int64"} -> "Integer"
    [] dtype = "float64" -> "Float"
    [] dtype \in {"datetime64[ns]", "datetime64[ns, UTC]"} -> "Date"
    [] OTHER -> "none"
Classes == {"Text", "Integer", "Float", "Date"}

\* C6: a read of a table gives every column of a batch loaded into it a
\* local type of the column's semantic class, and no field type the forward
\* map produced is missing from the backward map (the read raises no KeyError).
C6_TypeRoundTrip ==
  \A i \in Finished : \A j \in Finished :
    (/\ i < j
     /\ IsSave(hist[i]) /\ hist[i].outcome = "Loaded"
     /\ IsRead(hist[j]) /\ hist[j].table_name = hist[i].table_name)
    => /\ hist[j].outcome = "Returned"
       /\ Len(hist[j].dtypes) = Len(hist[i].df.dtypes)
       /\ \A k \in 1..Len(hist[i].df.dtypes) :
            /\ hist[j].dtypes[k][1] = hist[i].df.dtypes[k][1]
            /\ ClassOf(hist[j].dtypes[k][2]) \in Classes
            /\ ClassOf(hist[j].dtypes[k][2]) = ClassOf(hist[i].df.dtypes[k][2])

C6_Witness ==
  \E i \in Finished : \E j \in Finished :
    /\ i < j
    /\ IsSave(hist[i]) /\ hist[i].outcome = "Loaded" /\ hist[i].df.dtypes = DtUTC32
    /\ ~Present(hist[i].pre, hist[i].table_name)
    /\ IsRead(hist[j]) /\ hist[j].table_name = hist[i].table_name
    /\ hist[j].outcome = "Returned"
    /\ hist[j].dtypes[1] = <<"date", "datetime64[ns]">>
    /\ hist[j].dtypes[3] = <<"volume", "int64">>

\* The local types the lookup table has.
Mapped == {"object", "int32", "int64", "float64", "datetime64[ns]", "datetime64[ns, UTC]"}
HasUnmapped(df) == \E k \in 1..Len(df.dtypes) : df.dtypes[k][2] \notin Mapped

\* C7: a save of a batch with a column of an unmapped type raises KeyError
\* with no schema built, before any request is sent, and leaves the
\* warehouse as it was; no such batch is ever past the schema step.
C7_UnmappedTypeFailsFirst ==
  /\ \A i \in Finished :
       (IsSave(hist[i]) /\ HasUnmapped(hist[i].df))
       => /\ hist[i].outcome = "KeyError"
          /\ "schema" \notin DOMAIN hist[i]
          /\ hist[i].sent = <<>>
          /\ hist[i].post = hist[i].pre
  /\ \A c \in Callers :
       (pc[c] # "idle" /\ IsSave(loc[c])) => ~HasUnmapped(loc[c].df)

C7_Witness ==
  \E i \in Finished :
    /\ IsSave(hist[i]) /\ HasUnmapped(hist[i].df)
    /\ hist[i].outcome = "KeyError"
    /\ Present(hist[i].pre, hist[i].table_name)
    /\ hist[i].post = hist[i].pre

\* The rows the filter of (start, end, names) is to select.
RowUniverse == {Row(d, n) : d \in Dates, n \in {NameA, NameB, NameQ}}
Wanted(r, sd, ed, ci) ==
  /\ IsNone(sd) \/ r.date >= Val(sd)
  /\ IsNone(ed) \/ r.date <= Val(ed)
  /\ IsNone(ci) \/ \E k \in 1..Len(Val(ci)) : Val(ci)[k][2] = r.itemname
Renders(where, sd, ed, ci) ==
  /\ WellFormed(where)
  /\ \A r \in RowUniverse : Selects(where, r) <=> Wanted(r, sd, ed, ci)

\* C8: every operation renders its filter well-formed and selecting exactly
\* the rows of the given start, end and names (all rows when none is given).
C8_FilterRendersArguments ==
  \A i \in Finished :
    LET h == hist[i]
    IN /\ h.op = "get_daily_info_all"
            => Renders(h.where, h.start_date, h.end_date, h.codeinfo_df)
       /\ h.op = "get_last_date_of_daily_info"
            => Renders(h.where, None, None, h.codeinfo_df)
       /\ (IsDelete(h) /\ "query" \in SentKinds(h))
            => Renders(h.sent[Len(h.sent)][2].where,
                       Some(DayOf(h.start_date_str)), None, h.codeinfo_df)
       /\ h.op = "save_daily_info_all"
            => \A k \in 1..Len(h.query) :
                 Renders(h.query[k].where, h.start_date, h.end_date, None)

\* C9: the shards of two distinct (info_type, code, market) triples have
\* different names, and the aggregate operation of an info type finds the
\* shard a save of that info type stored.
C9_ShardNamesInjective ==
  \A i \in Finished : \A j \in Finished :
    /\ (/\ hist[i].op \in {"save_daily_item_info", "save_daily_item_indicator_info"}
        /\ hist[j].op \in {"save_daily_item_info", "save_daily_item_indicator_info"}
        /\ \/ hist[i].info_type # hist[j].info_type
           \/ hist[i].itemcode_info[1] # hist[j].itemcode_info[1]
           \/ hist[i].itemcode_info[3] # hist[j].itemcode_info[3])
       => hist[i].table_name # hist[j].table_name
    /\ (/\ i < j
        /\ hist[i].op = "save_daily_item_info" /\ hist[i].outcome = "Loaded"
        /\ hist[j].op = "save_daily_info_all"
        /\ hist[j].info_type = hist[i].info_type
        /\ \E k \in 1..Len(hist[j].codeinfo_df) :
             hist[j].codeinfo_df[k] = hist[i].itemcode_info)
       => \E k \in 1..Len(hist[j].table_names) :
            hist[j].table_names[k] = hist[i].table_name

====
